---------------------------- MODULE Spec2Model ----------------------------
(***************************************************************************)
(* Model of the StrokeEngine pattern family of OSSM-hardware               *)
(* (Software/lib/StrokeEngine/src/pattern.h): the Pattern base class and   *)
(* its seven variants, their setters and nextTarget(); and of the two      *)
(* FreeRTOS tasks of Software/src/ossm (OSSM.StrokeEngine.cpp,             *)
(* OSSM.PlayControls.cpp) that share the settings of the machine.          *)
(*                                                                         *)
(* Numbers.  C++ float/double values are modelled as exact extended        *)
(* rationals: a pair <<n, d>> with d > 0 in lowest terms is n/d,           *)
(* <<1, 0>> is +inf, <<-1, 0>> is -inf and <<0, 0>> is NaN, with the IEEE  *)
(* rules for division by zero, inf - inf and comparisons with NaN.         *)
(* Rounding to 24/53 bits of mantissa and negative zero are not modelled.  *)
(* The conversion of a non-finite value to int is undefined behaviour in   *)
(* C++ and is a nondeterministic choice (IntOf).                           *)
(*                                                                         *)
(* State.  _index, _timeOfStroke, _timeOfFastStroke, _timeOfInStroke,      *)
(* _timeOfOutStroke, _countStrokesForRamp, _realStroke, _strokeFraction,   *)
(* _strokeInFront and _nextMove.speed/.acceleration/.skip are written by   *)
(* every path of nextTarget() before they are read and are read by no      *)
(* other function: they carry nothing from one call to the next.  Their    *)
(* values in the last call are kept in the record `call`, which stands for *)
(* what that call computed and returned and is cleared by the next setter. *)
(* _nextMove.stroke is kept between calls for StopNGo, whose delayed       *)
(* branch returns it unchanged; the other variants assign it on every path.*)
(* The record `ossm` holds the settings, the copy of them the engine task  *)
(* last handled, the encoder and the control whose setting it was last set *)
(* from, what the Stroker was last given and the position of each task in  *)
(* its loop.                                                               *)
(*                                                                         *)
(* Specifications.  Spec takes each setter and each nextTarget() call *)
(* as one step.  SpecRace takes one TeasingPounding::nextTarget() call     *)
(* apart into its reads, kept in the record `frame`, with the setters of   *)
(* another task running in between.  SpecPolled calls nextTarget() with    *)
(* the indices 0, 1, 2, ... in order, the index advancing after each       *)
(* command that is not skipped; the record `poller` holds the next index   *)
(* and counts the in-strokes and the series of StopNGo.  SpecSeries is     *)
(* StopNGo alone, called with any index over the same long clock.          *)
(* SpecInsist is Insist alone with a finer choice of sensations.  SpecLive *)
(* is StopNGo polled in order under weak fairness of the poll and of the   *)
(* clock.  SpecOssm interleaves startStrokeEngineTask and                  *)
(* drawPlayControlsTask, one shared access at a time, with the user        *)
(* turning the knob and the encoder and selecting the control and the      *)
(* pattern.                                                                *)
(***************************************************************************)
EXTENDS Integers, Sequences, FiniteSets, TLC

(***************************************************************************)
(* Bounds of the model and sets the inputs are drawn from.                 *)
(***************************************************************************)
MaxIndex == 2

MaxStrokeIndex == 1

MaxNow == 12000

ClockSteps == {6000}

Variants ==
    {"SimplePenetration", "TeasingPounding", "RoboStroke", "HalfnHalf",
     "Deeper", "StopNGo", "Insist"}

SpeedValues == {-1, 0, 100}

StrokeValues == {0, 600, 1000}

DepthValues == {0, 800, 1000}

SensationValues == {-150, -100, 0, 50, 100}

LimitValues == {<<1000, 10000>>, <<120, 40>>}

StepsPerMMValues == {50}

Indices == 0..MaxIndex

\* Results a build can produce when a NaN or an infinity is converted to int.
UBInts == {-2147483647, 0, 2147483647}

(***************************************************************************)
(* Extended rational arithmetic.                                           *)
(***************************************************************************)
Sign(n) == IF n > 0 THEN 1 ELSE IF n < 0 THEN -1 ELSE 0

AbsInt(n) == IF n < 0 THEN -n ELSE n

MinInt(a, b) == IF a < b THEN a ELSE b

RECURSIVE GCD(_, _)
GCD(a, b) == IF b = 0 THEN a ELSE GCD(b, a % b)

\* n / d in lowest terms with the sign in the numerator.  A function, so
\* that each operand is evaluated once.
Reduced[n \in Int, d \in Int] ==
    IF d = 0 THEN <<Sign(n), 0>>
    ELSE LET g == GCD(AbsInt(n), AbsInt(d))
             s == Sign(d)
         IN  <<(s * n) \div g, (s * d) \div g>>

Norm(n, d) == Reduced[n, d]

R(i) == <<i, 1>>

Frac(n, d) == Norm(n, d)

Inf == <<1, 0>>

NaN == <<0, 0>>

IsNaN(a) == a = NaN

IsFinite(a) == a[2] # 0

RNeg(a) == <<-a[1], a[2]>>

RMul(a, b) == Norm(a[1] * b[1], a[2] * b[2])

\* 1/a: 1/0 is +inf (zero is unsigned here), 1/inf is 0, 1/NaN is NaN.
RRecip(a) ==
    IF a[2] = 0 THEN (IF a[1] = 0 THEN NaN ELSE R(0))
    ELSE IF a[1] = 0 THEN Inf
    ELSE Norm(a[2], a[1])

RDiv(a, b) == RMul(a, RRecip(b))

RAdd(a, b) ==
    IF a[2] = 0 /\ b[2] = 0
    THEN (IF a = b THEN a ELSE NaN)
    ELSE Norm(a[1] * b[2] + b[1] * a[2], a[2] * b[2])

RSub(a, b) == RAdd(a, RNeg(b))

\* a < b; FALSE as soon as one side is NaN.
RLt(a, b) ==
    IF IsNaN(a) \/ IsNaN(b) THEN FALSE
    ELSE IF a[2] = 0 /\ b[2] = 0 THEN a[1] < b[1]
    ELSE a[1] * b[2] < b[1] * a[2]

RGt(a, b) == RLt(b, a)

RAbs(a) == <<AbsInt(a[1]), a[2]>>

\* C integer division: the quotient is truncated toward zero (b # 0).
TruncDiv(a, b) == Sign(a) * Sign(b) * (AbsInt(a) \div AbsInt(b))

\* (int) of a finite value: the fraction is dropped.
Trunc(a) == TruncDiv(a[1], a[2])

\* The ints (int)a may yield: the truncation, or any of UBInts when a is not finite.
IntOf(a) == IF IsFinite(a) THEN {Trunc(a)} ELSE UBInts

(***************************************************************************)
(* Arduino helpers.                                                        *)
(***************************************************************************)
\* #define constrain(amt,low,high) ((amt)<(low)?(low):((amt)>(high)?(high):(amt)))
\* on ints.
Constrain(amt, low, high) ==
    IF amt < low THEN low ELSE IF amt > high THEN high ELSE amt

\* The same macro on a floating-point amt: a NaN passes both tests unchanged.
ConstrainReal(amt, low, high) ==
    IF RLt(amt, low) THEN low ELSE IF RGt(amt, high) THEN high ELSE amt

\* long map(long x, in_min, in_max, out_min, out_max): integer arithmetic, no clamping.
ArduinoMap(x, in_min, in_max, out_min, out_max) ==
    TruncDiv((x - in_min) * (out_max - out_min), in_max - in_min) + out_min

\* fscale(inMin, inMax, outMin, outMax, value, curve = 0): value is clamped into
\* [inMin, inMax] and interpolated linearly into [outMin, outMax].
Fscale(inMin, inMax, outMin, outMax, value) ==
    LET v == ConstrainReal(value, inMin, inMax)
        normalized == RDiv(RSub(v, inMin), RSub(inMax, inMin))
    IN  RAdd(outMin, RMul(normalized, RSub(outMax, outMin)))

(***************************************************************************)
(* State: the fields of one Pattern instance that live from one call to    *)
(* the next (those of the other variants keep their initial values), the   *)
(* millis() clock, and the last call.                                      *)
(***************************************************************************)
VARIABLES
    variant,              \* the concrete class of the instance
    _stroke, _depth, _speed, _sensation,
    _startDelayMillis, _delayInMillis,
    _maxSpeed, _maxAcceleration, _stepsPerMM,
    _x,                   \* RoboStroke
    _half,                \* HalfnHalf
    _strokeSeriesIndex, _strokeIndex, _countStrokesUp,   \* StopNGo
    _nextMove_stroke,     \* _nextMove.stroke (StopNGo)
    now,                  \* millis()
    call,                 \* the last nextTarget() call, until a setter runs
    frame,                \* a nextTarget() call in progress, statement by
                          \* statement, while another task runs the setters
    poller,               \* the caller that polls with indices 0, 1, 2, ...
    ossm                  \* the two tasks of the machine that share the
                          \* settings, and what the Stroker was given

tunables == <<_stroke, _depth, _speed, _sensation>>

limits == <<_maxSpeed, _maxAcceleration, _stepsPerMM>>

delayTimer == <<_startDelayMillis, _delayInMillis>>

series == <<_strokeSeriesIndex, _strokeIndex, _countStrokesUp>>

vars ==
    <<variant, tunables, limits, delayTimer, _x, _half, series,
      _nextMove_stroke, now, call, frame, poller, ossm>>

_numberOfStrokes == 5

\* No call since the last setter.  A call records its argument (index), the
\* command it returned and the members it computed on the way; here these
\* hold the members' initializers.
NoCall ==
    [returned |-> FALSE, index |-> -1,
     stroke |-> 0, speed |-> 0, acceleration |-> 0, skip |-> FALSE,
     speedDivisor |-> 1,
     timeOfStroke |-> R(1), timeOfInStroke |-> R(1), timeOfOutStroke |-> R(1),
     countStrokesForRamp |-> 2, strokeFraction |-> R(1), realStroke |-> 0,
     x |-> Frac(1, 3), cycleIndex |-> 1, amplitude |-> 0]

\* No call in progress.  speed, acceleration and stroke are _nextMove's;
\* inTime and outTime are _timeOfInStroke and _timeOfOutStroke; depths are the
\* values _depth has had since the call began.
NoFrame ==
    [pc |-> "idle", index |-> 0, depths |-> {}, range |-> 0,
     inTime |-> R(1), outTime |-> R(1),
     speed |-> 0, acceleration |-> 0, stroke |-> 0, high |-> FALSE]

\* The polling caller before its first call: the index it passes next, and
\* what it has seen of StopNGo: the in-strokes returned since the last pause
\* began, the number of pauses begun, and the in-strokes of the series the
\* last pause ended.
NoPoller == [index |-> 0, inStrokes |-> 0, seriesDone |-> 0, lastSeries |-> 0]

\* The tasks of the machine before they are created.
NoOssm == [created |-> FALSE]

\* After construction.  _stroke, _depth and _speed have no initializer: their
\* first values are indeterminate.
Init ==
    /\ variant \in Variants
    /\ _stroke \in StrokeValues
    /\ _depth \in DepthValues
    /\ _speed \in SpeedValues
    /\ _sensation = 0
    /\ _startDelayMillis = 0
    /\ _delayInMillis = 0
    /\ _maxSpeed = 0
    /\ _maxAcceleration = 0
    /\ _stepsPerMM = 0
    /\ _x = Frac(1, 3)
    /\ _half = TRUE
    /\ _strokeSeriesIndex = 1
    /\ _strokeIndex = 0
    /\ _countStrokesUp = TRUE
    /\ _nextMove_stroke = 0
    /\ now \in ClockSteps
    /\ call = NoCall
    /\ frame = NoFrame
    /\ poller = NoPoller
    /\ ossm = NoOssm

(***************************************************************************)
(* Setters.                                                                *)
(***************************************************************************)
internals ==
    <<variant, _x, _half, series, _nextMove_stroke, now, frame, poller, ossm>>

setSpeed(speed) ==
    /\ _speed' = speed
    /\ call' = NoCall
    /\ UNCHANGED <<_stroke, _depth, _sensation, limits, delayTimer, internals>>

setStroke(stroke) ==
    /\ _stroke' = stroke
    /\ call' = NoCall
    /\ UNCHANGED <<_speed, _depth, _sensation, limits, delayTimer, internals>>

setDepth(depth) ==
    /\ _depth' = depth
    /\ call' = NoCall
    /\ UNCHANGED <<_speed, _stroke, _sensation, limits, delayTimer, internals>>

\* A delay mapped from 10 s down to 100 ms.
StopNGoDelay_decreasing(sensation) == ArduinoMap(sensation, -100, 100, 10000, 100)

\* StopNGo::setSensation: the delay mapped from sensation.
StopNGoDelay(sensation) == ArduinoMap(sensation, -100, 100, 100, 10000)

\* A setSensation that lengthens the delay by the mapped value.
setSensation_accumulating(sensation) ==
    /\ _sensation' = sensation
    /\ _delayInMillis' =
          IF variant = "StopNGo" THEN _delayInMillis + StopNGoDelay(sensation)
          ELSE _delayInMillis
    /\ call' = NoCall
    /\ UNCHANGED <<_speed, _stroke, _depth, limits, _startDelayMillis, internals>>

\* Pattern::setSensation, and StopNGo's override which also updates the delay.
setSensation(sensation) ==
    /\ _sensation' = sensation
    /\ _delayInMillis' =
          IF variant = "StopNGo" THEN StopNGoDelay(sensation) ELSE _delayInMillis
    /\ call' = NoCall
    /\ UNCHANGED <<_speed, _stroke, _depth, limits, _startDelayMillis, internals>>

setSpeedLimit(maxSpeed, maxAcceleration, stepsPerMM) ==
    /\ _maxSpeed' = maxSpeed
    /\ _maxAcceleration' = maxAcceleration
    /\ _stepsPerMM' = stepsPerMM
    /\ call' = NoCall
    /\ UNCHANGED <<tunables, delayTimer, internals>>

(***************************************************************************)
(* Shared helpers of the base class.                                       *)
(***************************************************************************)
\* Pattern::_calRangeOfStroke
CalRangeOfStroke(depth, stroke) == MinInt(AbsInt(depth), AbsInt(stroke))

\* constrain(_speed, 1, _maxSpeed), the divisor of the stroke time.
SpeedDivisor(speed, maxSpeed) == Constrain(speed, 1, maxSpeed)

\* Pattern::_calTimeOfStroke, and the override of TeasingPounding and HalfnHalf
\* (factor 2.0).
CalTimeOfStroke(v, depth, stroke, speed, maxSpeed) ==
    LET range == R(CalRangeOfStroke(depth, stroke))
        divisor == R(SpeedDivisor(speed, maxSpeed))
    IN  IF v \in {"TeasingPounding", "HalfnHalf"}
        THEN RDiv(RMul(R(2), range), divisor)
        ELSE RDiv(range, divisor)

TimeOfStroke == CalTimeOfStroke(variant, _depth, _stroke, _speed, _maxSpeed)

\* int(0.05 * _maxSpeed) and int(0.5 * _maxAcceleration)
IdleSpeed(maxSpeed) == Trunc(RMul(Frac(5, 100), R(maxSpeed)))

IdleAcceleration(maxAcceleration) == Trunc(RMul(Frac(1, 2), R(maxAcceleration)))

\* constrain(_depth - _stroke, 0, _depth)
BackPosition(depth, stroke) == Constrain(depth - stroke, 0, depth)

\* Insist::_updateRealStroke
StrokeFraction(sensation) == RDiv(RSub(R(100), RAbs(R(sensation))), R(100))

StrokeInFront(sensation) == sensation > 0

RealStroke(stroke, sensation) == Trunc(RMul(R(stroke), StrokeFraction(sensation)))

\* The target of _setIdleState: Pattern's, SimplePenetration's and Insist's.
\* The idle target of the base class alone, as if no variant overrode
\* _setIdleState.
IdleTarget_base(v, depth, stroke, sensation) == BackPosition(depth, stroke)

IdleTarget(v, depth, stroke, sensation) ==
    CASE v = "SimplePenetration" -> 0
      [] v = "Insist" ->
            IF StrokeInFront(sensation)
            THEN Constrain(depth - RealStroke(stroke, sensation), 0, depth)
            ELSE Constrain(depth - stroke, 0, depth)
      [] OTHER -> BackPosition(depth, stroke)

\* _setIdleState: the command it stores in _nextMove and returns.
SetIdleState ==
    [stroke |-> IdleTarget(variant, _depth, _stroke, _sensation),
     speed |-> IdleSpeed(_maxSpeed),
     acceleration |-> IdleAcceleration(_maxAcceleration),
     skip |-> FALSE, idle |-> TRUE]

\* A timer measured from the poll instead of from _startDelayMillis.
IsStillDelayed_fromPoll ==
    LET sum == now + _delayInMillis
    IN  IF sum < 0 THEN TRUE ELSE ~(now > sum)

\* Pattern::_isStillDelayed: millis() > _startDelayMillis + _delayInMillis is
\* an unsigned comparison; a negative sum converts to a value above every
\* clock value of the model.
IsStillDelayed ==
    LET sum == _startDelayMillis + _delayInMillis
    IN  IF sum < 0 THEN TRUE ELSE ~(now > sum)

\* 1.5 * distance / time and 3.0 * speed / time of the trapezoidal profile.
TrapSpeed(distance, time) == RDiv(RMul(Frac(3, 2), R(distance)), time)

\* A profile whose acceleration phase takes half of the stroke time.
TrapAcceleration_half(speed, time) == RDiv(RMul(R(2), R(speed)), time)

TrapAcceleration(speed, time) == RDiv(RMul(R(3), R(speed)), time)

\* The same timing with the sign of the sensation read the other way round.
StrokeTiming_reversed(T, sensation) ==
    LET fast == RDiv(RMul(Frac(1, 2), T),
                     Fscale(R(0), R(100), R(1), R(5), RAbs(R(sensation))))
    IN  IF sensation < 0
        THEN [fast |-> fast, in |-> fast, out |-> RSub(T, fast)]
        ELSE [fast |-> fast, in |-> RSub(T, fast), out |-> fast]

\* _updateStrokeTiming of TeasingPounding and HalfnHalf.
StrokeTiming(T, sensation) ==
    LET fast == RDiv(RMul(Frac(1, 2), T),
                     Fscale(R(0), R(100), R(1), R(5), RAbs(R(sensation))))
    IN  IF sensation > 0
        THEN [fast |-> fast, in |-> fast, out |-> RSub(T, fast)]
        ELSE [fast |-> fast, in |-> RSub(T, fast), out |-> fast]

\* The same scaling with the constant-speed end at 0.6.
RoboX_wide(sensation) ==
    IF sensation >= 0
    THEN Fscale(R(0), R(100), Frac(1, 3), Frac(3, 5), R(sensation))
    ELSE Fscale(R(0), R(100), Frac(1, 3), Frac(5, 100), R(-sensation))

\* RoboStroke: sensation scaled into [0.05, 0.5], 1/3 at 0.
RoboX(sensation) ==
    IF sensation >= 0
    THEN Fscale(R(0), R(100), Frac(1, 3), Frac(1, 2), R(sensation))
    ELSE Fscale(R(0), R(100), Frac(1, 3), Frac(5, 100), R(-sensation))

\* Deeper: the number of strokes of a ramp.
CountStrokesForRamp(sensation) ==
    IF sensation < 0
    THEN ArduinoMap(sensation, -100, 0, 2, 11)
    ELSE ArduinoMap(sensation, 0, 100, 11, 32)

\* A cycle index counted from 0.
CycleIndex_fromZero(index, count) ==
    IF count > 0 THEN (index \div 2) % count ELSE index \div 2

\* Deeper: (index / 2) % _countStrokesForRamp + 1.  The modulo is unsigned: a
\* negative count converts to a modulus above every index / 2.
CycleIndex(index, count) ==
    IF count > 0 THEN ((index \div 2) % count) + 1 ELSE (index \div 2) + 1

\* The record of a call: its argument, the command it returned, the stroke time
\* it computed and the divisor of that time (none on the idle path).
Returned(index, cmd, T) ==
    [NoCall EXCEPT !.returned = TRUE, !.index = index,
                   !.stroke = cmd.stroke, !.speed = cmd.speed,
                   !.acceleration = cmd.acceleration, !.skip = cmd.skip,
                   !.timeOfStroke = T,
                   !.speedDivisor = IF cmd.idle THEN 1
                                    ELSE SpeedDivisor(_speed, _maxSpeed)]

\* if (_speed == 0) return _setIdleState();
Idle(index) ==
    /\ call' = IF variant = "Insist"
               THEN [Returned(index, SetIdleState, R(1)) EXCEPT
                        !.strokeFraction = StrokeFraction(_sensation),
                        !.realStroke = RealStroke(_stroke, _sensation)]
               ELSE Returned(index, SetIdleState, R(1))
    /\ _nextMove_stroke' = IF variant = "StopNGo" THEN SetIdleState.stroke
                           ELSE _nextMove_stroke
    /\ UNCHANGED <<_x, _half, series, delayTimer>>

(***************************************************************************)
(* nextTarget(index) of the seven variants, speed # 0.                     *)
(***************************************************************************)
\* Targets that alternate from the command returned before.
SimplePenetration_target_alternating(index) ==
    IF call.returned /\ call.stroke = _depth THEN 0 ELSE _depth

\* odd stroke: _depth, even stroke: 0.
SimplePenetration_target(index) == IF index % 2 = 1 THEN _depth ELSE 0

\* The same pair of targets with the parity exchanged.
TeasingPounding_target_exchanged(index) ==
    IF index % 2 = 1 THEN _depth ELSE BackPosition(_depth, _stroke)

\* odd stroke: constrain(_depth - _stroke, 0, _depth), even stroke: _depth
\* (TeasingPounding, RoboStroke, and StopNGo when it is not delayed).
TeasingPounding_target(index) ==
    IF index % 2 = 1 THEN BackPosition(_depth, _stroke) ELSE _depth

\* The same targets with every even stroke a full one.
HalfnHalf_target_full(index, half) ==
    IF index % 2 = 1
    THEN BackPosition(_depth, _stroke)
    ELSE Constrain((_depth - _stroke) + _stroke, 0, _depth)

\* HalfnHalf: the even stroke goes in by stroke, or by stroke / 2 when half.
HalfnHalf_target(index, half) ==
    LET stroke == IF half THEN TruncDiv(_stroke, 2) ELSE _stroke
    IN  IF index % 2 = 1
        THEN BackPosition(_depth, _stroke)
        ELSE Constrain((_depth - _stroke) + stroke, 0, _depth)

\* Deeper: slope * cycleIndex, and the target it is added to.
Deeper_amplitude(index, count) == TruncDiv(_stroke, count) * CycleIndex(index, count)

Deeper_target(index, count) ==
    IF index % 2 = 1
    THEN BackPosition(_depth, _stroke)
    ELSE Constrain((_depth - _stroke) + Deeper_amplitude(index, count), 0, _depth)

SimplePenetration_nextTarget(index) ==
    LET T == TimeOfStroke
        speed == Trunc(ConstrainReal(RMul(Frac(3, 2), R(_speed)), R(0), R(_maxSpeed)))
        acc == ConstrainReal(TrapAcceleration(speed, T), R(0), R(_maxAcceleration))
    IN  \E a \in IntOf(acc) :
          /\ call' = Returned(index,
                        [stroke |-> SimplePenetration_target(index),
                         speed |-> speed, acceleration |-> a, skip |-> FALSE, idle |-> FALSE], T)
          /\ UNCHANGED <<_x, _half, series, delayTimer, _nextMove_stroke>>

TeasingPounding_nextTarget(index) ==
    LET T == TimeOfStroke
        t == StrokeTiming(T, _sensation)
        time == IF index % 2 = 1 THEN t.out ELSE t.in
    IN  \E s \in IntOf(TrapSpeed(_stroke, time)) :
          LET speed == Constrain(s, 0, _maxSpeed)
              acc == ConstrainReal(TrapAcceleration(speed, time), R(0),
                                   R(_maxAcceleration))
          IN  \E a \in IntOf(acc) :
                /\ call' = [Returned(index,
                              [stroke |-> TeasingPounding_target(index),
                               speed |-> speed, acceleration |-> a,
                               skip |-> FALSE, idle |-> FALSE], T)
                            EXCEPT !.timeOfInStroke = t.in,
                                   !.timeOfOutStroke = t.out]
                /\ UNCHANGED <<_x, _half, series, delayTimer, _nextMove_stroke>>

\* The speed and the acceleration are formed from _x before _x is updated
\* from the sensation.
RoboStroke_nextTarget(index) ==
    LET T == TimeOfStroke
        speed == Constrain(Trunc(RDiv(R(_speed), RSub(R(1), _x))), 0, _maxSpeed)
        acc == Constrain(Trunc(RDiv(R(_speed), _x)), 0, _maxAcceleration)
    IN  /\ call' = [Returned(index,
                      [stroke |-> TeasingPounding_target(index),
                       speed |-> speed, acceleration |-> acc, skip |-> FALSE, idle |-> FALSE], T)
                    EXCEPT !.x = _x]
        /\ _x' = RoboX(_sensation)
        /\ UNCHANGED <<_half, series, delayTimer, _nextMove_stroke>>

HalfnHalf_nextTarget(index) ==
    LET T == TimeOfStroke
        t == StrokeTiming(T, _sensation)
        half == IF index = 0 THEN TRUE ELSE _half
        time == IF index % 2 = 1 THEN t.out ELSE t.in
    IN  \E s \in IntOf(TrapSpeed(_stroke, time)) :
          LET speed == Constrain(s, 0, _maxSpeed)
          IN  \E a \in IntOf(TrapAcceleration(speed, time)) :
                /\ call' = [Returned(index,
                              [stroke |-> HalfnHalf_target(index, half),
                               speed |-> speed,
                               acceleration |-> Constrain(a, 0, _maxAcceleration),
                               skip |-> FALSE, idle |-> FALSE], T)
                            EXCEPT !.timeOfInStroke = t.in,
                                   !.timeOfOutStroke = t.out]
                /\ _half' = IF index % 2 = 1 THEN ~half ELSE half
                /\ UNCHANGED <<_x, series, delayTimer, _nextMove_stroke>>

\* _stroke / _countStrokesForRamp traps when the count is 0: no command is
\* returned then.
Deeper_nextTarget(index) ==
    LET T == TimeOfStroke
        count == CountStrokesForRamp(_sensation)
    IN  /\ count # 0
        /\ LET amplitude == Deeper_amplitude(index, count)
           IN  \E s \in IntOf(TrapSpeed(amplitude, T)) :
                 LET speed == Constrain(s, 0, _maxSpeed)
                 IN  \E a \in IntOf(TrapAcceleration(speed, T)) :
                       /\ call' = [Returned(index,
                                     [stroke |-> Deeper_target(index, count),
                                      speed |-> speed,
                                      acceleration |->
                                          Constrain(a, 0, _maxAcceleration),
                                      skip |-> FALSE, idle |-> FALSE], T)
                                   EXCEPT !.countStrokesForRamp = count,
                                          !.cycleIndex = CycleIndex(index, count),
                                          !.amplitude = amplitude]
                       /\ UNCHANGED <<_x, _half, series, delayTimer,
                                      _nextMove_stroke>>

\* Series counters whose direction is never turned down.
StopNGo_seriesStep_upOnly ==
    IF _strokeIndex >= _strokeSeriesIndex
    THEN [strokeIndex |-> 0,
          countStrokesUp |-> TRUE,
          strokeSeriesIndex |-> _strokeSeriesIndex + 1,
          startDelayMillis |-> now]
    ELSE [strokeIndex |-> _strokeIndex,
          countStrokesUp |-> _countStrokesUp,
          strokeSeriesIndex |-> _strokeSeriesIndex,
          startDelayMillis |-> _startDelayMillis]

\* The series counters after an odd index that is not delayed.  (The even
\* strokes counted by _strokeIndex are unbounded when the caller repeats even
\* indices; StopNGo_nextTarget stops counting at maxStrokeIndex.)
StopNGo_seriesStep ==
    IF _strokeIndex >= _strokeSeriesIndex
    THEN LET up == IF _strokeSeriesIndex <= 1 THEN TRUE
                   ELSE IF _strokeSeriesIndex >= _numberOfStrokes THEN FALSE
                   ELSE _countStrokesUp
         IN  [strokeIndex |-> 0,
              countStrokesUp |-> up,
              strokeSeriesIndex |-> IF up THEN _strokeSeriesIndex + 1
                                    ELSE _strokeSeriesIndex - 1,
              startDelayMillis |-> now]
    ELSE [strokeIndex |-> _strokeIndex,
          countStrokesUp |-> _countStrokesUp,
          strokeSeriesIndex |-> _strokeSeriesIndex,
          startDelayMillis |-> _startDelayMillis]

\* A target assigned in the delayed branch as well.
StopNGo_target_moving(index, delayed) == TeasingPounding_target(index)

\* The target of a StopNGo call: in the delayed branch _nextMove.stroke is
\* not assigned.
StopNGo_target(index, delayed) ==
    IF delayed THEN _nextMove_stroke ELSE TeasingPounding_target(index)

StopNGo_nextTarget(index, maxStrokeIndex) ==
    LET T == TimeOfStroke
        delayed == IsStillDelayed
        speed == Constrain(Trunc(RMul(Frac(3, 2), R(_speed))), 0, _maxSpeed)
        n == StopNGo_seriesStep
        target == StopNGo_target(index, delayed)
    IN  \E a \in IntOf(TrapAcceleration(speed, T)) :
          /\ call' = Returned(index,
                        [stroke |-> target, speed |-> speed,
                         acceleration |-> Constrain(a, 0, _maxAcceleration),
                         skip |-> delayed, idle |-> FALSE], T)
          /\ _nextMove_stroke' = target
          /\ IF delayed
             THEN UNCHANGED <<series, _startDelayMillis>>
             ELSE IF index % 2 = 1
             THEN /\ _strokeIndex' = n.strokeIndex
                  /\ _countStrokesUp' = n.countStrokesUp
                  /\ _strokeSeriesIndex' = n.strokeSeriesIndex
                  /\ _startDelayMillis' = n.startDelayMillis
             ELSE /\ _strokeIndex < maxStrokeIndex
                  /\ _strokeIndex' = _strokeIndex + 1
                  /\ UNCHANGED <<_strokeSeriesIndex, _countStrokesUp,
                                 _startDelayMillis>>
          /\ UNCHANGED <<_x, _half, _delayInMillis>>

\* Targets with the shortened stroke at the front for every sensation.
Insist_target_front(index, depth, stroke, sensation) ==
    LET realStroke == RealStroke(stroke, sensation)
    IN  IF index % 2 = 1
        THEN Constrain(depth - realStroke, 0, depth)
        ELSE depth

\* The targets of Insist for an odd and an even index.
Insist_target(index, depth, stroke, sensation) ==
    LET realStroke == RealStroke(stroke, sensation)
    IN  IF StrokeInFront(sensation)
        THEN (IF index % 2 = 1
              THEN Constrain(depth - realStroke, 0, depth)
              ELSE depth)
        ELSE (IF index % 2 = 1
              THEN BackPosition(depth, stroke)
              ELSE Constrain((depth - stroke) + realStroke, 0, depth))

Insist_nextTarget(index) ==
    LET T == TimeOfStroke
        fraction == StrokeFraction(_sensation)
        speed == Constrain(Trunc(RMul(Frac(3, 2), R(_speed))), 0, _maxSpeed)
    IN  \E a \in IntOf(TrapAcceleration(speed, RMul(T, fraction))) :
          /\ call' = [Returned(index,
                        [stroke |-> Insist_target(index, _depth, _stroke, _sensation),
                         speed |-> speed,
                         acceleration |-> Constrain(a, 0, _maxAcceleration),
                         skip |-> FALSE, idle |-> FALSE], T)
                      EXCEPT !.strokeFraction = fraction,
                             !.realStroke = RealStroke(_stroke, _sensation)]
          /\ UNCHANGED <<_x, _half, series, delayTimer, _nextMove_stroke>>

\* The virtual call: every variant returns the idle command when _speed == 0.
nextTarget(index, maxStrokeIndex) ==
    /\ IF _speed = 0 THEN Idle(index)
       ELSE CASE variant = "SimplePenetration" -> SimplePenetration_nextTarget(index)
              [] variant = "TeasingPounding" -> TeasingPounding_nextTarget(index)
              [] variant = "RoboStroke" -> RoboStroke_nextTarget(index)
              [] variant = "HalfnHalf" -> HalfnHalf_nextTarget(index)
              [] variant = "Deeper" -> Deeper_nextTarget(index)
              [] variant = "StopNGo" -> StopNGo_nextTarget(index, maxStrokeIndex)
              [] variant = "Insist" -> Insist_nextTarget(index)
    /\ UNCHANGED <<variant, tunables, limits, now, frame, ossm>>

\* millis() advances.  Only StopNGo reads the clock.
Tick ==
    /\ variant = "StopNGo"
    /\ \E d \in ClockSteps :
          /\ now + d <= MaxNow
          /\ now' = now + d
    /\ UNCHANGED <<variant, tunables, limits, delayTimer, _x, _half, series,
                   _nextMove_stroke, call, frame, poller, ossm>>

SetSpeed == \E speed \in SpeedValues : setSpeed(speed)

SetStroke == \E stroke \in StrokeValues : setStroke(stroke)

SetDepth == \E depth \in DepthValues : setDepth(depth)

SetSensation == \E sensation \in SensationValues : setSensation(sensation)

SetSpeedLimit ==
    \E l \in LimitValues, stepsPerMM \in StepsPerMMValues :
        setSpeedLimit(l[1], l[2], stepsPerMM)

NextTarget ==
    /\ \E index \in Indices : nextTarget(index, MaxStrokeIndex)
    /\ UNCHANGED poller

Next ==
    \/ SetSpeed
    \/ SetStroke
    \/ SetDepth
    \/ SetSensation
    \/ SetSpeedLimit
    \/ NextTarget
    \/ Tick

Spec == Init /\ [][Next]_vars

(***************************************************************************)
(* TeasingPounding::nextTarget run by one task, one statement or one       *)
(* evaluation of a macro operand at a time, while another task calls       *)
(* setSpeed, setStroke and setDepth.  The members are plain ints accessed  *)
(* without synchronisation: each evaluation reads the value in memory at   *)
(* that moment.  The instance has had setSpeedLimit called and its         *)
(* sensation is neutral.                                                   *)
(***************************************************************************)
RaceSpeedValues == {0, 100}

RaceStrokeValues == {600, 1000}

RaceDepthValues == {800, 1000}

InitRace ==
    /\ variant = "TeasingPounding"
    /\ _stroke \in RaceStrokeValues
    /\ _depth \in RaceDepthValues
    /\ _speed \in RaceSpeedValues
    /\ _sensation = 0
    /\ _startDelayMillis = 0
    /\ _delayInMillis = 0
    /\ \E l \in LimitValues, stepsPerMM \in StepsPerMMValues :
          /\ _maxSpeed = l[1]
          /\ _maxAcceleration = l[2]
          /\ _stepsPerMM = stepsPerMM
    /\ _x = Frac(1, 3)
    /\ _half = TRUE
    /\ _strokeSeriesIndex = 1
    /\ _strokeIndex = 0
    /\ _countStrokesUp = TRUE
    /\ _nextMove_stroke = 0
    /\ now \in ClockSteps
    /\ call = NoCall
    /\ frame = NoFrame
    /\ poller = NoPoller
    /\ ossm = NoOssm

raceRest ==
    <<variant, _sensation, limits, delayTimer, _x, _half, series,
      _nextMove_stroke, now, call, poller, ossm>>

InCall == frame.pc \notin {"idle", "done"}

Race_setSpeed(speed) ==
    /\ _speed' = speed
    /\ UNCHANGED <<_stroke, _depth, frame, raceRest>>

Race_setStroke(stroke) ==
    /\ _stroke' = stroke
    /\ UNCHANGED <<_speed, _depth, frame, raceRest>>

Race_setDepth(depth) ==
    /\ _depth' = depth
    /\ frame' = IF InCall THEN [frame EXCEPT !.depths = @ \cup {depth}] ELSE frame
    /\ UNCHANGED <<_speed, _stroke, raceRest>>

\* if (_speed == 0) return _setIdleState();  _nextMove.skip = false;
Race_enter(index) ==
    /\ frame.pc = "idle"
    /\ frame' =
          IF _speed = 0
          THEN [NoFrame EXCEPT !.pc = "t1", !.index = index,
                               !.depths = {_depth},
                               !.speed = IdleSpeed(_maxSpeed),
                               !.acceleration = IdleAcceleration(_maxAcceleration)]
          ELSE [NoFrame EXCEPT !.pc = "range", !.index = index,
                               !.depths = {_depth}]
    /\ UNCHANGED <<_speed, _stroke, _depth, raceRest>>

\* _calRangeOfStroke()
Race_calRangeOfStroke ==
    /\ frame.pc = "range"
    /\ frame' = [frame EXCEPT !.pc = "d1",
                              !.range = CalRangeOfStroke(_depth, _stroke)]
    /\ UNCHANGED <<_speed, _stroke, _depth, raceRest>>

\* _timeOfStroke = float(2.0 * range / divisor);  _updateStrokeTiming();
FrameWithTime(divisor) ==
    LET T == RDiv(RMul(R(2), R(frame.range)), R(divisor))
        t == StrokeTiming(T, _sensation)
    IN  [frame EXCEPT !.pc = "v1", !.inTime = t.in, !.outTime = t.out]

\* constrain(_speed, 1, _maxSpeed): (_speed) < (1) ? (1) : ...
Race_divisorLow ==
    /\ frame.pc = "d1"
    /\ frame' = IF _speed < 1 THEN FrameWithTime(1) ELSE [frame EXCEPT !.pc = "d2"]
    /\ UNCHANGED <<_speed, _stroke, _depth, raceRest>>

\* ... (_speed) > (_maxSpeed) ? (_maxSpeed) : ...
Race_divisorHigh ==
    /\ frame.pc = "d2"
    /\ frame' = IF _speed > _maxSpeed THEN FrameWithTime(_maxSpeed)
                ELSE [frame EXCEPT !.pc = "d3"]
    /\ UNCHANGED <<_speed, _stroke, _depth, raceRest>>

\* ... (_speed)
Race_divisorAmt ==
    /\ frame.pc = "d3"
    /\ frame' = FrameWithTime(_speed)
    /\ UNCHANGED <<_speed, _stroke, _depth, raceRest>>

\* _timeOfOutStroke for an odd index, _timeOfInStroke for an even one.
FrameTime == IF frame.index % 2 = 1 THEN frame.outTime ELSE frame.inTime

\* int(1.5 * _stroke / time), as evaluated now.
FrameAmt == IntOf(TrapSpeed(_stroke, FrameTime))

\* constrain(int(1.5 * _stroke / time), 0, _maxSpeed): (amt) < (0) ? (0) : ...
Race_speedLow ==
    /\ frame.pc = "v1"
    /\ \E amt \in FrameAmt :
          frame' = IF amt < 0 THEN [frame EXCEPT !.pc = "acc", !.speed = 0]
                   ELSE [frame EXCEPT !.pc = "v2"]
    /\ UNCHANGED <<_speed, _stroke, _depth, raceRest>>

\* ... (amt) > (_maxSpeed) ? (_maxSpeed) : ...
Race_speedHigh ==
    /\ frame.pc = "v2"
    /\ \E amt \in FrameAmt :
          frame' = IF amt > _maxSpeed
                   THEN [frame EXCEPT !.pc = "acc", !.speed = _maxSpeed]
                   ELSE [frame EXCEPT !.pc = "v3"]
    /\ UNCHANGED <<_speed, _stroke, _depth, raceRest>>

\* ... (amt)
Race_speedAmt ==
    /\ frame.pc = "v3"
    /\ \E amt \in FrameAmt : frame' = [frame EXCEPT !.pc = "acc", !.speed = amt]
    /\ UNCHANGED <<_speed, _stroke, _depth, raceRest>>

\* _nextMove.acceleration = int(constrain(3.0 * _nextMove.speed / time, 0,
\* _maxAcceleration)); a NaN time makes the quotient NaN.  An even index then
\* takes _depth as its target.
Race_acceleration ==
    /\ frame.pc = "acc"
    /\ \E a \in (IF IsNaN(FrameTime) THEN IntOf(NaN)
                 ELSE IntOf(ConstrainReal(TrapAcceleration(frame.speed, FrameTime),
                                          R(0), R(_maxAcceleration)))) :
          frame' = IF frame.index % 2 = 1
                   THEN [frame EXCEPT !.pc = "t1", !.acceleration = a]
                   ELSE [frame EXCEPT !.pc = "done", !.acceleration = a,
                                      !.stroke = _depth]
    /\ UNCHANGED <<_speed, _stroke, _depth, raceRest>>

\* constrain(_depth - _stroke, 0, _depth): (_depth - _stroke) < (0) ? (0) : ...
Race_targetLow ==
    /\ frame.pc = "t1"
    /\ frame' = IF _depth - _stroke < 0
                THEN [frame EXCEPT !.pc = "done", !.stroke = 0]
                ELSE [frame EXCEPT !.pc = "t2"]
    /\ UNCHANGED <<_speed, _stroke, _depth, raceRest>>

\* ... (_depth - _stroke) > (_depth) ? ...
Race_targetHigh ==
    /\ frame.pc = "t2"
    /\ frame' = [frame EXCEPT !.pc = "t3", !.high = (_depth - _stroke > _depth)]
    /\ UNCHANGED <<_speed, _stroke, _depth, raceRest>>

\* ... (_depth) : (_depth - _stroke)
Race_targetAmt ==
    /\ frame.pc = "t3"
    /\ frame' = [frame EXCEPT !.pc = "done",
                              !.stroke = IF frame.high THEN _depth
                                         ELSE _depth - _stroke]
    /\ UNCHANGED <<_speed, _stroke, _depth, raceRest>>

\* return _nextMove;
Race_return ==
    /\ frame.pc = "done"
    /\ frame' = NoFrame
    /\ UNCHANGED <<_speed, _stroke, _depth, raceRest>>

Race_SetSpeed == \E speed \in RaceSpeedValues : Race_setSpeed(speed)

Race_SetStroke == \E stroke \in RaceStrokeValues : Race_setStroke(stroke)

Race_SetDepth == \E depth \in RaceDepthValues : Race_setDepth(depth)

Race_Enter == \E index \in Indices : Race_enter(index)

NextRace ==
    \/ Race_SetSpeed
    \/ Race_SetStroke
    \/ Race_SetDepth
    \/ Race_Enter
    \/ Race_calRangeOfStroke
    \/ Race_divisorLow
    \/ Race_divisorHigh
    \/ Race_divisorAmt
    \/ Race_speedLow
    \/ Race_speedHigh
    \/ Race_speedAmt
    \/ Race_acceleration
    \/ Race_targetLow
    \/ Race_targetHigh
    \/ Race_targetAmt
    \/ Race_return

SpecRace == InitRace /\ [][NextRace]_vars


(***************************************************************************)
(* A caller that polls one instance with indices 0, 1, 2, ...: it advances *)
(* the index by 1 after each command that is not skipped and polls the     *)
(* same index again after a skipped one.  The instance is a HalfnHalf, a   *)
(* Deeper or a StopNGo that has had setSpeedLimit, setSpeed, setStroke and *)
(* setDepth called; the sensation is set while it runs.                    *)
(***************************************************************************)
MaxPollIndex == 66

MaxPollStrokeIndex == 6

MaxPollNow == 60000

PolledVariants == {"HalfnHalf", "Deeper", "StopNGo"}

PollSpeedValues == {100}

PollStrokeValues == {600, 1000}

PollDepthValues == {1000}

PollLimitValues == {<<1000, 10000>>}

InitPolled ==
    /\ variant \in PolledVariants
    /\ _stroke \in PollStrokeValues
    /\ _depth \in PollDepthValues
    /\ _speed \in PollSpeedValues
    /\ _sensation = 0
    /\ _startDelayMillis = 0
    /\ _delayInMillis = 0
    /\ \E l \in PollLimitValues, stepsPerMM \in StepsPerMMValues :
          /\ _maxSpeed = l[1]
          /\ _maxAcceleration = l[2]
          /\ _stepsPerMM = stepsPerMM
    /\ _x = Frac(1, 3)
    /\ _half = TRUE
    /\ _strokeSeriesIndex = 1
    /\ _strokeIndex = 0
    /\ _countStrokesUp = TRUE
    /\ _nextMove_stroke = 0
    /\ now \in ClockSteps
    /\ call = NoCall
    /\ frame = NoFrame
    /\ poller = NoPoller
    /\ ossm = NoOssm

\* The caller after the call that is returning: _startDelay() has run in it
\* exactly when the series counter has changed.
PollerAfter ==
    LET pauseBegins == _strokeSeriesIndex' # _strokeSeriesIndex
        skipped == call'.skip
    IN  [index |-> IF skipped THEN poller.index ELSE poller.index + 1,
         inStrokes |-> IF pauseBegins THEN 0
                       ELSE IF variant = "StopNGo" /\ ~skipped
                                /\ poller.index % 2 = 0
                       THEN poller.inStrokes + 1
                       ELSE poller.inStrokes,
         seriesDone |-> IF pauseBegins THEN poller.seriesDone + 1
                        ELSE poller.seriesDone,
         lastSeries |-> IF pauseBegins THEN poller.inStrokes
                        ELSE poller.lastSeries]

Poll ==
    /\ poller.index < MaxPollIndex
    /\ nextTarget(poller.index, MaxPollStrokeIndex)
    /\ poller' = PollerAfter

\* The caller starts the pattern again from index 0.
PollRestart ==
    /\ variant # "StopNGo"
    /\ poller.index > 0
    /\ poller' = [poller EXCEPT !.index = 0]
    /\ UNCHANGED <<variant, tunables, limits, delayTimer, _x, _half, series,
                   _nextMove_stroke, now, call, frame, ossm>>

PollSetSensation == \E sensation \in SensationValues : setSensation(sensation)

PollTick ==
    /\ variant = "StopNGo"
    /\ \E d \in ClockSteps :
          /\ now + d <= MaxPollNow
          /\ now' = now + d
    /\ UNCHANGED <<variant, tunables, limits, delayTimer, _x, _half, series,
                   _nextMove_stroke, call, frame, poller, ossm>>

NextPolled ==
    \/ Poll
    \/ PollRestart
    \/ PollSetSensation
    \/ PollTick

SpecPolled == InitPolled /\ [][NextPolled]_vars

(***************************************************************************)
(* A StopNGo instance called with arbitrary indices (repeated, skipped,    *)
(* out of order), with the speed and the sensation set in between, over    *)
(* enough time for the series counter to run up and down.                  *)
(***************************************************************************)
SeriesSpeedValues == {0, 100}

SeriesStrokeValues == {600}

InitSeries == InitPolled /\ variant = "StopNGo" /\ _stroke \in SeriesStrokeValues

SeriesNextTarget ==
    /\ \E index \in Indices : nextTarget(index, MaxPollStrokeIndex)
    /\ UNCHANGED poller

SeriesSetSpeed == \E speed \in SeriesSpeedValues : setSpeed(speed)

NextSeries ==
    \/ SeriesNextTarget
    \/ SeriesSetSpeed
    \/ PollSetSensation
    \/ PollTick

SpecSeries == InitSeries /\ [][NextSeries]_vars

(***************************************************************************)
(* Insist alone, with a finer choice of sensations.                        *)
(***************************************************************************)
InsistSensationValues == {-100, -50, -16, 0, 16, 50, 100}

InsistSpeedValues == {-1, 100}

InsistStrokeValues == {0, 600, 1000}

InsistDepthValues == {800, 1000}

InitInsist ==
    /\ variant = "Insist"
    /\ _stroke \in InsistStrokeValues
    /\ _depth \in InsistDepthValues
    /\ _speed \in InsistSpeedValues
    /\ _sensation = 0
    /\ _startDelayMillis = 0
    /\ _delayInMillis = 0
    /\ \E l \in PollLimitValues, stepsPerMM \in StepsPerMMValues :
          /\ _maxSpeed = l[1]
          /\ _maxAcceleration = l[2]
          /\ _stepsPerMM = stepsPerMM
    /\ _x = Frac(1, 3)
    /\ _half = TRUE
    /\ _strokeSeriesIndex = 1
    /\ _strokeIndex = 0
    /\ _countStrokesUp = TRUE
    /\ _nextMove_stroke = 0
    /\ now \in ClockSteps
    /\ call = NoCall
    /\ frame = NoFrame
    /\ poller = NoPoller
    /\ ossm = NoOssm

InsistSetSensation == \E sensation \in InsistSensationValues : setSensation(sensation)

InsistSetStroke == \E stroke \in InsistStrokeValues : setStroke(stroke)

InsistSetDepth == \E depth \in InsistDepthValues : setDepth(depth)

InsistNextTarget ==
    /\ \E index \in Indices : nextTarget(index, MaxStrokeIndex)
    /\ UNCHANGED poller

NextInsist ==
    \/ InsistSetSensation
    \/ InsistSetStroke
    \/ InsistSetDepth
    \/ InsistNextTarget

SpecInsist == InitInsist /\ [][NextInsist]_vars

(***************************************************************************)
(* StopNGo polled in order by a caller that keeps polling while the clock  *)
(* keeps advancing, with the sensations of the documented range.           *)
(***************************************************************************)
MaxLiveNow == 30000

LiveSensationValues == {-100, 100}

LivePoll == Poll

LiveSetSensation == \E sensation \in LiveSensationValues : setSensation(sensation)

LiveTick ==
    /\ \E d \in ClockSteps :
          /\ now + d <= MaxLiveNow
          /\ now' = now + d
    /\ UNCHANGED <<variant, tunables, limits, delayTimer, _x, _half, series,
                   _nextMove_stroke, call, frame, poller, ossm>>

NextLive ==
    \/ LivePoll
    \/ LiveSetSensation
    \/ LiveTick

\* The caller polls on every tick of its loop and millis() advances.
SpecLive ==
    /\ InitSeries
    /\ [][NextLive]_vars
    /\ WF_vars(LivePoll)
    /\ WF_vars(LiveTick)

(***************************************************************************)
(* The machine around the patterns.  startStrokeEngineTask compares the    *)
(* settings with its copy lastSetting and pushes what changed to the       *)
(* Stroker, one read of a setting per step; drawPlayControlsTask writes    *)
(* the settings from the speed knob and the encoder.  The record `ossm`    *)
(* holds the settings, lastSetting, the position of each task (epc, wpc),  *)
(* what the Stroker was last given, and of the present iteration of the    *)
(* engine task which of stopMotion and startPattern it called.  The        *)
(* StrokeEngine class, isChangeSignificant and the state machine are not   *)
(* among the sources: getStroke() and getDepth() return what setStroke and *)
(* setDepth were given, the answers of getState() and of                   *)
(* isChangeSignificant on two different speeds are left open, and the      *)
(* user leaves the strokeEngine states at any time.                        *)
(***************************************************************************)
PercentValues == {50, 100}

SpeedPercentValues == {0, 50}

PatternValues == {"SimplePenetration", "TeasingPounding"}

ControlValues == {"STROKE", "SENSATION", "DEPTH"}

\* The number of times the user moves the knob or the encoder or selects a
\* control or a pattern.
MaxUserChanges == 3

measuredStrokeMm == 200

maxSpeedMmPerSecond == 900

\* The setting a play control selects.
ControlField(control) ==
    CASE control = "STROKE" -> "stroke"
      [] control = "SENSATION" -> "sensation"
      [] control = "DEPTH" -> "depth"

\* What Stroker.setStroke, setDepth and setSensation are given for a setting:
\* 0.01f * setting * abs(measuredStrokeMm), and for the sensation
\* calculateSensation(setting), kept as its argument.
Pushed(field, percent) ==
    IF field = "sensation" THEN R(percent)
    ELSE RMul(RMul(Frac(1, 100), R(percent)), RAbs(R(measuredStrokeMm)))

\* ((maxSpeedMmPerSecond * speed / 100.0F) / (min(|stroke|, |depth|) * 2.0F)) * 60.0F
TripPerMinute(speed, stroke, depth) ==
    LET travel == IF RLt(RAbs(stroke), RAbs(depth)) THEN RAbs(stroke)
                  ELSE RAbs(depth)
    IN  RMul(RDiv(RDiv(RMul(R(maxSpeedMmPerSecond), R(speed)), R(100)),
                  RMul(travel, R(2))),
             R(60))

\* Nothing called yet in this iteration of the engine task.
NoIteration == [handled |-> FALSE, speed |-> 0, stop |-> FALSE, start |-> FALSE,
                ready |-> FALSE]

InitOssm ==
    /\ variant = "SimplePenetration"
    /\ _stroke \in PollStrokeValues
    /\ _depth \in PollDepthValues
    /\ _speed \in PollSpeedValues
    /\ _sensation = 0
    /\ _startDelayMillis = 0
    /\ _delayInMillis = 0
    /\ _maxSpeed = 0
    /\ _maxAcceleration = 0
    /\ _stepsPerMM = 0
    /\ _x = Frac(1, 3)
    /\ _half = TRUE
    /\ _strokeSeriesIndex = 1
    /\ _strokeIndex = 0
    /\ _countStrokesUp = TRUE
    /\ _nextMove_stroke = 0
    /\ now \in ClockSteps
    /\ call = NoCall
    /\ frame = NoFrame
    /\ poller = NoPoller
    /\ \E speed \in SpeedPercentValues, control \in ControlValues :
          LET setting == [speed |-> speed, stroke |-> 50, depth |-> 100,
                          sensation |-> 50, pattern |-> "TeasingPounding"]
          IN  ossm = [created |-> TRUE,
                      changes |-> 0,
                      sm |-> "strokeEngine",
                      setting |-> setting,
                      lastSetting |-> setting,
                      playControl |-> control,
                      encoderValue |-> setting[ControlField(control)],
                      bound |-> control,
                      encoder |-> 0,
                      wpc |-> "read",
                      epc |-> "copy",
                      stroker |-> [stroke |-> NaN, depth |-> NaN,
                                   sensation |-> NaN, speed |-> NaN,
                                   pattern |-> setting.pattern],
                      iteration |-> NoIteration,
                      pushed |-> FALSE,
                      stopped |-> FALSE]

patternState ==
    <<variant, tunables, limits, delayTimer, _x, _half, series,
      _nextMove_stroke, now, call, frame, poller>>

\* ossm->sm->is("strokeEngine"_s) || ... is("strokeEngine.idle"_s) || ...
InCorrectState == ossm.sm = "strokeEngine"

\* SettingPercents lastSetting = ossm->setting; then the first values of the
\* Stroker.
Engine_begin ==
    /\ \/ /\ ossm.epc = "copy"
          /\ ossm' = [ossm EXCEPT !.lastSetting = ossm.setting, !.epc = "init"]
       \/ /\ ossm.epc = "init"
          /\ ossm' = [ossm EXCEPT
                        !.stroker.sensation = Pushed("sensation", ossm.setting.sensation),
                        !.stroker.depth = Pushed("depth", ossm.setting.depth),
                        !.stroker.stroke = Pushed("stroke", ossm.setting.stroke),
                        !.epc = "loop"]
    /\ UNCHANGED patternState

\* while (isInCorrectState(ossm)) { ... vTaskDelay(400); }
\* Stroker.stopMotion(); vTaskDelete(nullptr);
Engine_loop ==
    /\ \/ /\ ossm.epc = "loop"
          /\ ossm' = [ossm EXCEPT
                        !.epc = IF InCorrectState THEN "speed" ELSE "stop"]
       \/ /\ ossm.epc = "delay"
          /\ ossm' = [ossm EXCEPT !.epc = "loop"]
       \/ /\ ossm.epc = "stop"
          /\ ossm' = [ossm EXCEPT !.stopped = TRUE, !.epc = "deleted"]
    /\ UNCHANGED patternState

\* The condition of the first if, one operand of || after the other.
Engine_changed ==
    /\ \/ /\ ossm.epc = "speed"
          /\ \E significant \in BOOLEAN :
                /\ ossm.lastSetting.speed = ossm.setting.speed => ~significant
                /\ ossm' = [ossm EXCEPT
                              !.epc = IF significant THEN "startStop" ELSE "stroke"]
       \/ \E f \in {"stroke", "depth", "sensation"} :
             /\ ossm.epc = f
             /\ ossm' = [ossm EXCEPT
                           !.epc = IF ossm.lastSetting[f] # ossm.setting[f]
                                   THEN "startStop"
                                   ELSE CASE f = "stroke" -> "depth"
                                          [] f = "depth" -> "sensation"
                                          [] f = "sensation" -> "stroke.cmp"]
    /\ UNCHANGED patternState

\* A block that starts the pattern whenever the Stroker is READY.
Engine_startStop_anySpeed ==
    /\ ossm.epc = "startStop"
    /\ \E ready \in BOOLEAN :
          ossm' = [ossm EXCEPT
                     !.iteration =
                         [handled |-> TRUE,
                          speed |-> ossm.setting.speed,
                          stop |-> ossm.setting.speed = 0,
                          start |-> ready,
                          ready |-> ready],
                     !.epc = "setSpeed"]
    /\ UNCHANGED patternState

\* if (ossm->setting.speed == 0) Stroker.stopMotion();
\* else if (Stroker.getState() == READY) Stroker.startPattern();
Engine_startStop ==
    /\ ossm.epc = "startStop"
    /\ \E ready \in BOOLEAN :
          ossm' = [ossm EXCEPT
                     !.iteration =
                         [handled |-> TRUE,
                          speed |-> ossm.setting.speed,
                          stop |-> ossm.setting.speed = 0,
                          start |-> ossm.setting.speed # 0 /\ ready,
                          ready |-> ready],
                     !.epc = "setSpeed"]
    /\ UNCHANGED patternState

\* Stroker.setSpeed(tripPerMinute, true); lastSetting.speed = ossm->setting.speed;
Engine_setSpeed ==
    /\ \/ /\ ossm.epc = "setSpeed"
          /\ ossm' = [ossm EXCEPT
                        !.stroker.speed =
                            TripPerMinute(ossm.setting.speed, ossm.stroker.stroke,
                                          ossm.stroker.depth),
                        !.epc = "copySpeed"]
       \/ /\ ossm.epc = "copySpeed"
          /\ ossm' = [ossm EXCEPT !.lastSetting.speed = ossm.setting.speed,
                                  !.iteration = NoIteration,
                                  !.epc = "stroke.cmp"]
    /\ UNCHANGED patternState

\* if (lastSetting.f != ossm->setting.f) {
\*     Stroker.setF(converted ossm->setting.f); lastSetting.f = ossm->setting.f; }
Engine_push(f) ==
    LET next == CASE f = "stroke" -> "depth.cmp"
                  [] f = "depth" -> "sensation.cmp"
                  [] f = "sensation" -> "pattern.cmp"
    IN
    /\ \/ /\ ossm.epc = f \o ".cmp"
          /\ ossm' = [ossm EXCEPT
                        !.epc = IF ossm.lastSetting[f] # ossm.setting[f]
                                THEN f \o ".set" ELSE next]
       \/ /\ ossm.epc = f \o ".set"
          /\ ossm' = [ossm EXCEPT
                        !.stroker[f] = Pushed(f, ossm.setting[f]),
                        !.pushed = ossm.pushed \/ f \in {"stroke", "depth"},
                        !.epc = f \o ".copy"]
       \/ /\ ossm.epc = f \o ".copy"
          /\ ossm' = [ossm EXCEPT !.lastSetting[f] = ossm.setting[f],
                                  !.epc = next]
    /\ UNCHANGED patternState

\* The three blocks for the stroke, the depth and the sensation.
Engine_pushes == \E f \in {"stroke", "depth", "sensation"} : Engine_push(f)

\* if (lastSetting.pattern != ossm->setting.pattern) { switch ... }
Engine_pattern ==
    /\ \/ /\ ossm.epc = "pattern.cmp"
          /\ ossm' = [ossm EXCEPT
                        !.epc = IF ossm.lastSetting.pattern # ossm.setting.pattern
                                THEN "pattern.set" ELSE "delay"]
       \/ /\ ossm.epc = "pattern.set"
          /\ ossm' = [ossm EXCEPT
                        !.playControl =
                            IF ossm.setting.pattern = "SimplePenetration"
                            THEN "DEPTH" ELSE ossm.playControl,
                        !.stroker.pattern = ossm.setting.pattern,
                        !.epc = "pattern.copy"]
       \/ /\ ossm.epc = "pattern.copy"
          /\ ossm' = [ossm EXCEPT !.lastSetting.pattern = ossm.setting.pattern,
                                  !.epc = "delay"]
    /\ UNCHANGED patternState

\* drawPlayControlsTask: the speed knob into setting.speed, and the encoder
\* read into the local `encoder`.
Play_read ==
    /\ ossm.wpc = "read"
    /\ IF InCorrectState
       THEN \E knob \in SpeedPercentValues :
               LET moved == IF knob = ossm.setting.speed THEN 0 ELSE 1
               IN  /\ ossm.changes + moved <= MaxUserChanges
                   /\ ossm' = [ossm EXCEPT !.setting.speed = knob,
                                           !.changes = ossm.changes + moved,
                                           !.encoder = ossm.encoderValue,
                                           !.wpc = "write"]
       ELSE ossm' = [ossm EXCEPT !.wpc = "deleted"]
    /\ UNCHANGED patternState

\* switch (ossm->playControl): the encoder into the selected setting.
Play_write ==
    /\ ossm.wpc = "write"
    /\ ossm' = [ossm EXCEPT !.setting[ControlField(ossm.playControl)] = ossm.encoder,
                            !.wpc = "read"]
    /\ UNCHANGED patternState

\* The user turns the encoder.
User_turnsEncoder ==
    /\ InCorrectState
    /\ ossm.changes < MaxUserChanges
    /\ \E value \in PercentValues \ {ossm.encoderValue} :
          ossm' = [ossm EXCEPT !.encoderValue = value,
                               !.changes = ossm.changes + 1]
    /\ UNCHANGED patternState

\* The user selects another control: the task starts again and sets the
\* encoder from the setting of the control.
User_selectsControl ==
    /\ InCorrectState
    /\ ossm.changes < MaxUserChanges
    /\ \E control \in ControlValues \ {ossm.playControl} :
          ossm' = [ossm EXCEPT
                     !.changes = ossm.changes + 1,
                     !.playControl = control,
                     !.encoderValue = ossm.setting[ControlField(control)],
                     !.bound = control,
                     !.wpc = "read"]
    /\ UNCHANGED patternState

\* The user selects another pattern.
User_selectsPattern ==
    /\ InCorrectState
    /\ ossm.changes < MaxUserChanges
    /\ \E pattern \in PatternValues \ {ossm.setting.pattern} :
          ossm' = [ossm EXCEPT !.setting.pattern = pattern,
                               !.changes = ossm.changes + 1]
    /\ UNCHANGED patternState

\* The state machine leaves the strokeEngine states.
User_leaves ==
    /\ InCorrectState
    /\ ossm' = [ossm EXCEPT !.sm = "menu"]
    /\ UNCHANGED patternState

NextOssm ==
    \/ Engine_begin
    \/ Engine_loop
    \/ Engine_changed
    \/ Engine_startStop
    \/ Engine_setSpeed
    \/ Engine_pushes
    \/ Engine_pattern
    \/ Play_read
    \/ Play_write
    \/ User_turnsEncoder
    \/ User_selectsControl
    \/ User_selectsPattern
    \/ User_leaves

SpecOssm == InitOssm /\ [][NextOssm]_vars

(***************************************************************************)
(* Properties.  A state with call.returned is the state in which a         *)
(* nextTarget() call returns: the tunables and limits are those the call   *)
(* read.                                                                   *)
(***************************************************************************)
Odd(index) == index % 2 = 1

Called == call.returned

\* The targets the instance returns, with its present tunables, for the
\* indices of one parity when it is not idle and not delayed.
TargetsOf(index) ==
    CASE variant = "SimplePenetration" -> {SimplePenetration_target(index)}
      [] variant \in {"TeasingPounding", "RoboStroke", "StopNGo"} ->
            {TeasingPounding_target(index)}
      [] variant = "HalfnHalf" -> {HalfnHalf_target(index, h) : h \in BOOLEAN}
      [] variant = "Deeper" ->
            {Deeper_target(index, CountStrokesForRamp(_sensation))}
      [] variant = "Insist" -> {Insist_target(index, _depth, _stroke, _sensation)}

OddTargets == UNION {TargetsOf(i) : i \in {j \in Indices : Odd(j)}}

EvenTargets == UNION {TargetsOf(i) : i \in {j \in Indices : ~Odd(j)}}

\* clamp(depth - stroke, 0, depth), written out.
ClampedBack ==
    IF _depth - _stroke < 0 THEN 0
    ELSE IF _depth - _stroke > _depth THEN _depth
    ELSE _depth - _stroke

PlainInputs ==
    /\ _maxSpeed > 0 /\ _maxAcceleration > 0
    /\ _speed > 0 /\ _stroke > 0 /\ _depth > 0
    /\ _sensation >= -100 /\ _sensation <= 100

\* C2 (as stated, on plain inputs): every command nextTarget returns, those
\* with skip = true included, has 0 <= target <= depth,
\* 0 <= velocity <= maxVelocity and 0 <= acceleration <= maxAcceleration.
C2_CommandWithinLimits ==
    (Called /\ PlainInputs) =>
        /\ 0 <= call.stroke /\ call.stroke <= _depth
        /\ 0 <= call.speed /\ call.speed <= _maxSpeed
        /\ 0 <= call.acceleration /\ call.acceleration <= _maxAcceleration

\* C3 (as stated): with setDepth, setStroke and setSpeed running between
\* any two reads of nextTarget, the returned command is still clamped: its
\* target lies in [0, depth] for one of the depth values in force during the
\* call, and velocity and acceleration are within their limits.
C3_ClampedUnderConcurrentSetters ==
    frame.pc = "done" =>
        /\ \E depth \in frame.depths : 0 <= frame.stroke /\ frame.stroke <= depth
        /\ 0 <= frame.speed /\ frame.speed <= _maxSpeed
        /\ 0 <= frame.acceleration /\ frame.acceleration <= _maxAcceleration

\* C4 (as stated, for RoboStroke): the command returned by the first
\* nextTarget after setSensation is the one an instance that held the new
\* sensation all along returns: its velocity and acceleration are formed from
\* the x of the present sensation.
C4_SetterEffectiveOnNextCall ==
    (Called /\ variant = "RoboStroke" /\ _speed # 0) =>
        /\ call.speed =
              Constrain(Trunc(RDiv(R(_speed), RSub(R(1), RoboX(_sensation)))),
                        0, _maxSpeed)
        /\ call.acceleration =
              Constrain(Trunc(RDiv(R(_speed), RoboX(_sensation))),
                        0, _maxAcceleration)

\* C5 (as stated): with speed # 0, maxVelocity >= 1 and sensation in
\* [-100, 100], the divisors of nextTarget are nonzero: the stroke time, the
\* in/out stroke times, the Insist stroke fraction, the Deeper ramp length.
C5_NoZeroDivisor ==
    (Called /\ _speed # 0 /\ _maxSpeed >= 1
       /\ _sensation >= -100 /\ _sensation <= 100) =>
        /\ variant \in {"SimplePenetration", "Deeper", "StopNGo", "Insist"} =>
              call.timeOfStroke # R(0)
        /\ variant \in {"TeasingPounding", "HalfnHalf"} =>
              call.timeOfInStroke # R(0) /\ call.timeOfOutStroke # R(0)
        /\ variant = "Insist" => call.strokeFraction # R(0)
        /\ variant = "Deeper" => call.countStrokesForRamp # 0

\* C6 (as stated): for any value passed to setSensation the derived quantities
\* stay in range: Deeper ramp length in [2, 32], StopNGo delay in
\* [100, 10000] ms, Insist stroke fraction in [0, 1], RoboStroke x in
\* [0.05, 0.5].  (_delayInMillis is 0 until setSensation is called.)
C6_SensationDerivedInRange ==
    /\ (Called /\ _speed # 0 /\ variant = "Deeper") =>
          (2 <= call.countStrokesForRamp /\ call.countStrokesForRamp <= 32)
    /\ (Called /\ _speed # 0 /\ variant = "Insist") =>
          (~RLt(call.strokeFraction, R(0)) /\ ~RGt(call.strokeFraction, R(1)))
    /\ (variant = "StopNGo" /\ _delayInMillis # 0) =>
          (100 <= _delayInMillis /\ _delayInMillis <= 10000)
    /\ ~RLt(_x, Frac(5, 100)) /\ ~RGt(_x, Frac(1, 2))

\* C7 (as stated): in every call that computes a stroke time, also before
\* setSpeedLimit and for negative speeds, the divisor
\* clamp(speed, 1, maxVelocity) is at least 1.
C7_SpeedDivisorAtLeastOne ==
    (Called /\ _speed # 0) => call.speedDivisor >= 1

C9_DistanceWithinRange ==
    (Called /\ _speed # 0 /\ ~call.skip /\ _stroke >= 0 /\ _depth >= 0
       /\ call.timeOfStroke =
            CalTimeOfStroke(variant, _depth, _stroke, _speed, _maxSpeed)) =>
        \A t \in (IF Odd(call.index) THEN EvenTargets ELSE OddTargets) :
            AbsInt(call.stroke - t) <= MinInt(AbsInt(_stroke), AbsInt(_depth))

AccelerationWithStroke(stroke) ==
    ConstrainReal(
        TrapAcceleration(call.speed,
            CalTimeOfStroke(variant, _depth, stroke, _speed, _maxSpeed)),
        R(0), R(_maxAcceleration))

\* C11 (as stated): the command of SimplePenetration does not depend on
\* stroke or sensation: an instance with the same speed, depth and limits but
\* another stroke returns the same target, velocity, acceleration and skip.
C11_StrokeHasNoEffect ==
    (Called /\ variant = "SimplePenetration" /\ _speed # 0) =>
        \A stroke \in StrokeValues :
            (IsFinite(AccelerationWithStroke(stroke))
               /\ IsFinite(AccelerationWithStroke(_stroke))) =>
                call.acceleration = Trunc(AccelerationWithStroke(stroke))

SimpleSpeed ==
    Trunc(ConstrainReal(RMul(Frac(3, 2), R(_speed)), R(0), R(_maxSpeed)))

SimpleAcceleration ==
    ConstrainReal(
        TrapAcceleration(SimpleSpeed,
            CalTimeOfStroke("SimplePenetration", _depth, _stroke, _speed, _maxSpeed)),
        R(0), R(_maxAcceleration))

\* C13 (as stated): at neutral sensation (x = 1/3) RoboStroke returns the
\* velocity and the acceleration SimplePenetration returns for the same speed,
\* stroke, depth and limits.
C13_NeutralRoboStrokeIsSimple ==
    (Called /\ variant = "RoboStroke" /\ _speed # 0 /\ _sensation = 0
       /\ call.x = <<1, 3>> /\ _stroke > 0 /\ _depth > 0 /\ _maxSpeed > 0) =>
        /\ call.speed = SimpleSpeed
        /\ call.acceleration = Trunc(SimpleAcceleration)

\* C14: TeasingPounding and HalfnHalf, for every sensation in [-100, 100] and
\* every stroke time that is a number: timeOfInStroke + timeOfOutStroke =
\* timeOfStroke; at sensation 0 the two are equal; for sensation > 0 the
\* in-stroke is the shorter one and for sensation < 0 the out-stroke is
\* (strictly when timeOfStroke > 0); the shorter time is (timeOfStroke / 2) / k
\* with k = 1 + 4 * |sensation| / 100.
C14_AsymmetricTiming ==
    (Called /\ variant \in {"TeasingPounding", "HalfnHalf"} /\ _speed # 0
       /\ _sensation >= -100 /\ _sensation <= 100
       /\ IsFinite(call.timeOfStroke)) =>
        LET T == call.timeOfStroke
            in == call.timeOfInStroke
            out == call.timeOfOutStroke
            abs == IF _sensation < 0 THEN -_sensation ELSE _sensation
            fast == Norm(T[1] * 25, T[2] * 2 * (25 + abs))
        IN  /\ Norm(in[1] * out[2] + out[1] * in[2], in[2] * out[2]) = T
            /\ _sensation = 0 => in = out
            /\ _sensation > 0 =>
                  /\ in = fast
                  /\ in[1] * out[2] <= out[1] * in[2]
                  /\ T[1] > 0 => in[1] * out[2] < out[1] * in[2]
            /\ _sensation < 0 =>
                  /\ out = fast
                  /\ out[1] * in[2] <= in[1] * out[2]
                  /\ T[1] > 0 => out[1] * in[2] < in[1] * out[2]

\* C14 witness: TeasingPounding at sensation 50 with a stroke time of 12 s:
\* the in-stroke takes 2 s and the out-stroke 10 s.
C14_Witness ==
    /\ Called /\ variant = "TeasingPounding" /\ _speed = 100 /\ _sensation = 50
    /\ call.timeOfStroke = <<12, 1>>
    /\ call.timeOfInStroke = <<2, 1>> /\ call.timeOfOutStroke = <<10, 1>>

\* C15: HalfnHalf polled with indices 0, 1, 2, ... in order: the call with
\* index 0 is a half stroke and the pairs alternate between half and full
\* strokes: the even index i targets clamp((depth - stroke) + stroke / 2, 0,
\* depth) when i / 2 is even and clamp((depth - stroke) + stroke, 0, depth)
\* when i / 2 is odd, also after the caller has started again from index 0.
C15_HalfnHalfAlternation ==
    (Called /\ variant = "HalfnHalf" /\ _speed # 0 /\ call.index % 2 = 0) =>
        LET by == IF (call.index \div 2) % 2 = 0 THEN _stroke \div 2 ELSE _stroke
            amt == (_depth - _stroke) + by
        IN  call.stroke = (IF amt < 0 THEN 0 ELSE IF amt > _depth THEN _depth ELSE amt)

\* C15 witness: the third even index is a half stroke again, after a full one.
C15_Witness ==
    /\ Called /\ variant = "HalfnHalf" /\ _stroke = 600 /\ _depth = 1000
    /\ call.index = 4 /\ call.stroke = 700 /\ poller.index = 5 /\ _half = TRUE

C17_RampReachesDepth ==
    (Called /\ variant = "Deeper" /\ _speed # 0
       /\ 0 < _stroke /\ _stroke <= _depth
       /\ _sensation >= -100 /\ _sensation <= 100
       /\ call.index % 2 = 0
       /\ call.cycleIndex = call.countStrokesForRamp) =>
        /\ call.amplitude = _stroke
        /\ call.stroke = _depth

\* C18 (as stated): StopNGo: after setSensation(s) the stored pause is a
\* decreasing function of s, mapped linearly from 10000 ms at s = -100 to
\* 100 ms at s = 100.  (_delayInMillis is 0 until setSensation is called.)
C18_DelayDecreasing ==
    (variant = "StopNGo" /\ _delayInMillis # 0
       /\ _sensation >= -100 /\ _sensation <= 100) =>
        /\ _delayInMillis = 10000 - (9900 * (_sensation + 100)) \div 200
        /\ \A s \in SensationValues :
              (-100 <= s /\ s <= _sensation) => StopNGoDelay(s) >= _delayInMillis

\* C18 (amended): StopNGo: after setSensation(s) the stored pause is
\* 100 + 9900 (s + 100) / 200 ms (integer division truncating toward zero):
\* a non-decreasing function of s, 100 ms at s = -100, 5050 ms at s = 0 and
\* 10000 ms at s = 100.
C18_DelayIncreasing ==
    (variant = "StopNGo" /\ (_delayInMillis # 0 \/ _sensation # 0)) =>
        /\ _delayInMillis =
              100 + (IF _sensation >= -100
                     THEN (9900 * (_sensation + 100)) \div 200
                     ELSE -((9900 * (-100 - _sensation)) \div 200))
        /\ (_sensation = -100 => _delayInMillis = 100)
        /\ (_sensation = 0 => _delayInMillis = 5050)
        /\ (_sensation = 100 => _delayInMillis = 10000)
        /\ \A s \in SensationValues :
              s <= _sensation => StopNGoDelay(s) <= _delayInMillis

\* C18 witness: the longest pause, set by the largest sensation.
C18_Witness ==
    /\ variant = "StopNGo" /\ _sensation = 100 /\ _delayInMillis = 10000
    /\ ~Called

\* C19: StopNGo: in every reachable state, after any sequence of setter calls
\* and nextTarget calls with arbitrary indices at arbitrary clock values,
\* 1 <= _strokeSeriesIndex <= 5.
C19_SeriesIndexInRange ==
    variant = "StopNGo" => (1 <= _strokeSeriesIndex /\ _strokeSeriesIndex <= 5)

\* C19 witness: the counter has been up to 5 and is back at 1, counting down.
C19_Witness ==
    /\ variant = "StopNGo" /\ _strokeSeriesIndex = 1 /\ _countStrokesUp = FALSE

\* The number of in-strokes of the k-th series: 1, 2, 3, 4, 5, 4, 3, 2, 1, 2, ...
SeriesLength(k) ==
    LET m == (k - 1) % 8
    IN  IF m <= 4 THEN m + 1 ELSE 9 - m

\* The in-strokes of the completed series are 1, 2, 3, 4, 5, 4, 3, 2, 1, 2, ...
SeriesLengthsAsStated ==
    (variant = "StopNGo" /\ poller.seriesDone >= 1) =>
        poller.lastSeries = SeriesLength(poller.seriesDone)

\* A pause begins in a call that returns an out-stroke, and the in-stroke
\* after it is returned only when the delay has elapsed.
PauseBeginsAtOutStroke ==
    (variant = "StopNGo" /\ Called /\ ~call.skip /\ poller.seriesDone >= 1) =>
        /\ poller.inStrokes = 0 => call.index % 2 = 1
        /\ (poller.inStrokes = 1 /\ call.index % 2 = 0) =>
              now > _startDelayMillis + _delayInMillis

\* With the sensation in [-100, 100], skip = true is returned only between
\* the out-stroke that completes a series and the first in-stroke of the
\* next one.
SkipOnlyBetweenSeries ==
    (variant = "StopNGo" /\ Called /\ call.skip /\ _sensation \in -100..100) =>
        (poller.seriesDone >= 1 /\ poller.inStrokes = 0)

\* C20 (as stated): StopNGo polled by a caller that advances the index after
\* each command that is not skipped and polls the same index again after a
\* skipped one: the numbers of in-strokes of the successive series are
\* 1, 2, 3, 4, 5, 4, 3, 2, 1, 2, ...; a pause begins exactly when the
\* out-stroke that completes a series is returned, the calls after it return
\* skip = true until the delay has elapsed, and skip = true is returned at
\* no other time (never in the middle of a series).
C20_SeriesAndPauses ==
    /\ SeriesLengthsAsStated
    /\ PauseBeginsAtOutStroke
    /\ SkipOnlyBetweenSeries

\* A step that is a nextTarget() call of StopNGo which polls the timer:
\* setters clear `call` and the clock step leaves it alone.
TimerPolled ==
    /\ variant = "StopNGo" /\ _speed # 0
    /\ now' = now
    /\ call'.returned

\* C21 (as stated, for the durations that are not negative): the timer
\* started at t0 with duration d, polled at time t, answers true exactly
\* when t - t0 < d and false when t - t0 >= d.  The only poll is that of
\* StopNGo::nextTarget, which returns the answer as skip.
C21_DelayedWhileElapsedLess ==
    [][(TimerPolled /\ _delayInMillis >= 0) =>
          (call'.skip <=> (now - _startDelayMillis < _delayInMillis))]_vars

C23_SetterIdempotent ==
    [][/\ \A speed \in SpeedValues :
             setSpeed(speed) => ~(ENABLED <<setSpeed(speed)>>_vars)'
       /\ \A stroke \in StrokeValues :
             setStroke(stroke) => ~(ENABLED <<setStroke(stroke)>>_vars)'
       /\ \A depth \in DepthValues :
             setDepth(depth) => ~(ENABLED <<setDepth(depth)>>_vars)'
       /\ \A sensation \in SensationValues :
             setSensation(sensation) =>
                ~(ENABLED <<setSensation(sensation)>>_vars)'
       /\ \A l \in LimitValues, stepsPerMM \in StepsPerMMValues :
             setSpeedLimit(l[1], l[2], stepsPerMM) =>
                ~(ENABLED <<setSpeedLimit(l[1], l[2], stepsPerMM)>>_vars)']_vars

\* StopNGo after setSensation(50) during a running pause.
C23_Witness ==
    /\ variant = "StopNGo" /\ ~Called /\ _speed # 0
    /\ _sensation = 50 /\ _delayInMillis = StopNGoDelay(50)
    /\ _startDelayMillis > 0 /\ IsStillDelayed

\* C24 (as stated): HalfnHalf keeps the time of a stroke for half strokes:
\* the velocity of a half in-stroke is derived from the half distance over
\* the unchanged time of the in-stroke, int(1.5 * (stroke / 2) / t) clamped
\* to the speed limit, half the velocity of a full stroke.
C24_HalfStrokeHalfVelocity ==
    (/\ Called /\ variant = "HalfnHalf" /\ _speed > 0 /\ _stroke > 1
     /\ ~Odd(call.index)
     /\ call.stroke = HalfnHalf_target(call.index, TRUE)) =>
        call.speed =
            Constrain(Trunc(TrapSpeed(_stroke \div 2, call.timeOfInStroke)),
                      0, _maxSpeed)

\* The longest delay setSensation configures in the documented range.
LongestDelay == StopNGoDelay(100)

\* C25: StopNGo with speed # 0 and the sensation in [-100, 100], a clock
\* that keeps advancing and a caller that keeps polling: once a call has
\* returned skip = true, a later call returns skip = false (stated for the
\* pauses that end before the clock of the model does); a poll made more
\* than the delay after the start of the pause returns skip = false; and
\* the call is always possible, it never waits.
C25_PauseEnds ==
    /\ (Called /\ call.skip /\ _speed # 0
        /\ _startDelayMillis + LongestDelay < MaxLiveNow)
          ~> (Called /\ ~call.skip)
    /\ [][(TimerPolled /\ now - _startDelayMillis > _delayInMillis)
              => ~call'.skip]_vars
    /\ [](poller.index < MaxPollIndex => ENABLED Poll)

\* The first in-stroke after a pause of more than 5 s.
C25_Witness ==
    /\ variant = "StopNGo" /\ Called /\ ~call.skip /\ _speed # 0
    /\ poller.seriesDone >= 1 /\ poller.inStrokes = 1
    /\ _delayInMillis >= 5050
    /\ now > _startDelayMillis + _delayInMillis

\* The engine task is at the head of its loop with lastSetting equal to the
\* settings, and the other task writes what the settings already hold: as
\* long as the user changes nothing, nothing is pushed any more.
Quiescent ==
    /\ ossm.created
    /\ ossm.epc = "loop" /\ ossm.wpc = "read"
    /\ ossm.encoderValue = ossm.setting[ControlField(ossm.playControl)]
    /\ \A f \in {"speed", "stroke", "depth", "sensation", "pattern"} :
          ossm.lastSetting[f] = ossm.setting[f]

\* C26 (as stated): with the play-controls task writing the settings while
\* startStrokeEngineTask reads them, no change is lost: once the settings
\* have stopped changing, the values last passed to Stroker.setStroke,
\* setDepth and setSensation are those of the current settings.
C26_SettingsPushed ==
    Quiescent =>
        \A f \in {"stroke", "depth", "sensation"} :
            ossm.stroker[f] = Pushed(f, ossm.setting[f])

C28_SpeedFollowsStroke ==
    (Quiescent /\ ossm.pushed /\ ossm.stroker.speed # NaN) =>
        ossm.stroker.speed = TripPerMinute(ossm.setting.speed,
                                           ossm.stroker.stroke,
                                           ossm.stroker.depth)

\* C29: a StopNGo nextTarget call that returns skip = true changes none of
\* _strokeIndex, _strokeSeriesIndex, _countStrokesUp, the delay start time
\* and the delay duration, and its target is the one stored by the previous
\* call (which is the target the previous call returned); so the state that
\* determines the strokes after the pause is the same however many times
\* the caller polls during the pause.
C29_SkipChangesNothing ==
    [][(TimerPolled /\ call'.skip) =>
          /\ UNCHANGED <<series, delayTimer>>
          /\ call'.stroke = _nextMove_stroke
          /\ _nextMove_stroke' = _nextMove_stroke
          /\ call.returned => call'.stroke = call.stroke]_vars

\* A skip returned for an in-stroke index in the pause after the second
\* series, with the target of the out-stroke that began the pause.
C29_Witness ==
    /\ variant = "StopNGo" /\ Called /\ call.skip /\ _speed # 0
    /\ call.index % 2 = 0
    /\ _strokeSeriesIndex = 3 /\ _strokeIndex = 0
    /\ _stroke > 0
    /\ call.stroke = BackPosition(_depth, _stroke)

\* nextTarget(index) of SimplePenetration, TeasingPounding, Deeper and
\* Insist written as a function of the index, the tunables and the limits:
\* the commands the call can return (one, unless an int is formed from a
\* value that is not finite; none where Deeper divides by a zero count).
CommandOf(v, index, stroke, depth, speed, sensation, maxSpeed, maxAcceleration) ==
    LET T == CalTimeOfStroke(v, depth, stroke, speed, maxSpeed)
        odd == index % 2 = 1
        back == Constrain(depth - stroke, 0, depth)
        Cmd(target, s, a) ==
            [stroke |-> target, speed |-> s, acceleration |-> a, skip |-> FALSE]
    IN  IF speed = 0
        THEN {Cmd(IdleTarget(v, depth, stroke, sensation),
                  IdleSpeed(maxSpeed), IdleAcceleration(maxAcceleration))}
        ELSE CASE v = "SimplePenetration" ->
                    LET s == Trunc(ConstrainReal(RMul(Frac(3, 2), R(speed)),
                                                 R(0), R(maxSpeed)))
                        acc == ConstrainReal(RDiv(RMul(R(3), R(s)), T),
                                             R(0), R(maxAcceleration))
                    IN  {Cmd(IF odd THEN depth ELSE 0, s, a) : a \in IntOf(acc)}
               [] v = "TeasingPounding" ->
                    LET t == StrokeTiming(T, sensation)
                        time == IF odd THEN t.out ELSE t.in
                        target == IF odd THEN back ELSE depth
                        Acc(s) == ConstrainReal(RDiv(RMul(R(3), R(s)), time),
                                                R(0), R(maxAcceleration))
                    IN  UNION {{Cmd(target, Constrain(s, 0, maxSpeed), a) :
                                   a \in IntOf(Acc(Constrain(s, 0, maxSpeed)))} :
                               s \in IntOf(RDiv(RMul(Frac(3, 2), R(stroke)), time))}
               [] v = "Deeper" ->
                    LET count == CountStrokesForRamp(sensation)
                        amplitude == TruncDiv(stroke, count) * CycleIndex(index, count)
                        target == IF odd THEN back
                                  ELSE Constrain((depth - stroke) + amplitude, 0, depth)
                    IN  IF count = 0 THEN {}
                        ELSE UNION {{Cmd(target, Constrain(s, 0, maxSpeed),
                                         Constrain(a, 0, maxAcceleration)) :
                                        a \in IntOf(RDiv(RMul(R(3),
                                                   R(Constrain(s, 0, maxSpeed))), T))} :
                                    s \in IntOf(RDiv(RMul(Frac(3, 2), R(amplitude)), T))}
               [] v = "Insist" ->
                    LET fraction == StrokeFraction(sensation)
                        realStroke == RealStroke(stroke, sensation)
                        s == Constrain(Trunc(RMul(Frac(3, 2), R(speed))), 0, maxSpeed)
                        target ==
                            IF sensation > 0
                            THEN (IF odd THEN Constrain(depth - realStroke, 0, depth)
                                  ELSE depth)
                            ELSE (IF odd THEN back
                                  ELSE Constrain((depth - stroke) + realStroke,
                                                 0, depth))
                    IN  {Cmd(target, s, Constrain(a, 0, maxAcceleration)) :
                            a \in IntOf(RDiv(RMul(R(3), R(s)), RMul(T, fraction)))}

HistoryFree == {"SimplePenetration", "TeasingPounding", "Deeper", "Insist"}

ReturnedCommand ==
    [stroke |-> call.stroke, speed |-> call.speed,
     acceleration |-> call.acceleration, skip |-> call.skip]

Positive(a) == IsFinite(a) /\ a[1] # 0

\* No division of the call has a zero or an undefined divisor.
TimingsPositive ==
    _speed # 0 =>
        /\ Positive(TimeOfStroke)
        /\ variant = "Insist" => Positive(StrokeFraction(_sensation))
        /\ variant = "TeasingPounding" =>
              /\ Positive(StrokeTiming(TimeOfStroke, _sensation).in)
              /\ Positive(StrokeTiming(TimeOfStroke, _sensation).out)

EncoderStored ==
    /\ ossm.created
    /\ ossm.wpc = "write" /\ ossm'.wpc = "read"
    /\ ossm'.playControl = ossm.playControl

\* C31: the encoder value drawPlayControlsTask writes into a setting comes
\* from an encoder that was initialised from that same setting (ossm.bound
\* is the control whose setting the encoder was last set from), also when
\* the engine task has set playControl to DEPTH for SimplePenetration; and
\* the write leaves the two settings of the other controls unchanged.
C31_EncoderBoundToSetting ==
    [][EncoderStored =>
          /\ ossm.bound = ossm.playControl
          /\ \A control \in ControlValues \ {ossm.playControl} :
                ossm'.setting[ControlField(control)]
                    = ossm.setting[ControlField(control)]]_vars

=============================================================================
